---- MODULE Spec2Model ----
(***************************************************************************)
(* A model of the LaTeX render service: the main-document resolver of      *)
(* app/latex_compile.py, the compile pipeline around it, and the /compile  *)
(* handler of app/main.py.                                                 *)
(***************************************************************************)
EXTENDS Integers, Sequences, FiniteSets, TLC

(***************************************************************************)
(* Strings and paths.  A path is the sequence of its components from the   *)
(* filesystem root; str(path) is "/" + "/".join(components).               *)
(***************************************************************************)

Char(s, i) == SubSeq(s, i, i)

\* ord(c) for the characters file names are made of.
Code ==
    ("-" :> 45) @@ ("." :> 46) @@ ("0" :> 48) @@ ("1" :> 49) @@ ("2" :> 50) @@ ("3" :> 51) @@
    ("4" :> 52) @@ ("5" :> 53) @@ ("6" :> 54) @@ ("7" :> 55) @@ ("8" :> 56) @@ ("9" :> 57) @@
    ("A" :> 65) @@ ("B" :> 66) @@ ("C" :> 67) @@ ("D" :> 68) @@ ("E" :> 69) @@ ("F" :> 70) @@
    ("G" :> 71) @@ ("H" :> 72) @@ ("I" :> 73) @@ ("J" :> 74) @@ ("K" :> 75) @@ ("L" :> 76) @@
    ("M" :> 77) @@ ("N" :> 78) @@ ("O" :> 79) @@ ("P" :> 80) @@ ("Q" :> 81) @@ ("R" :> 82) @@
    ("S" :> 83) @@ ("T" :> 84) @@ ("U" :> 85) @@ ("V" :> 86) @@ ("W" :> 87) @@ ("X" :> 88) @@
    ("Y" :> 89) @@ ("Z" :> 90) @@ ("_" :> 95) @@ ("a" :> 97) @@ ("b" :> 98) @@ ("c" :> 99) @@
    ("d" :> 100) @@ ("e" :> 101) @@ ("f" :> 102) @@ ("g" :> 103) @@ ("h" :> 104) @@ ("i" :> 105) @@
    ("j" :> 106) @@ ("k" :> 107) @@ ("l" :> 108) @@ ("m" :> 109) @@ ("n" :> 110) @@ ("o" :> 111) @@
    ("p" :> 112) @@ ("q" :> 113) @@ ("r" :> 114) @@ ("s" :> 115) @@ ("t" :> 116) @@ ("u" :> 117) @@
    ("v" :> 118) @@ ("w" :> 119) @@ ("x" :> 120) @@ ("y" :> 121) @@ ("z" :> 122)

Ord(c) == Code[c]

\* The lower-case letter of every upper-case letter.
ToLower ==
    [A |-> "a", B |-> "b", C |-> "c", D |-> "d", E |-> "e", F |-> "f", G |-> "g",
     H |-> "h", I |-> "i", J |-> "j", K |-> "k", L |-> "l", M |-> "m", N |-> "n",
     O |-> "o", P |-> "p", Q |-> "q", R |-> "r", S |-> "s", T |-> "t", U |-> "u",
     V |-> "v", W |-> "w", X |-> "x", Y |-> "y", Z |-> "z"]

StartsWith(s, prefix) ==
    /\ Len(s) >= Len(prefix)
    /\ SubSeq(s, 1, Len(prefix)) = prefix

EndsWith(s, suffix) ==
    /\ Len(s) >= Len(suffix)
    /\ SubSeq(s, Len(s) - Len(suffix) + 1, Len(s)) = suffix

\* str.lower() on ASCII.
RECURSIVE Lower(_)
Lower(s) ==
    IF s = "" THEN ""
    ELSE LET c == Char(s, 1)
         IN  (IF c \in DOMAIN ToLower THEN ToLower[c] ELSE c)
                 \o Lower(SubSeq(s, 2, Len(s)))

\* str < str: lexicographic by code point.
RECURSIVE StrLess(_, _)
StrLess(a, b) ==
    IF b = "" THEN FALSE
    ELSE IF a = "" THEN TRUE
    ELSE IF Char(a, 1) # Char(b, 1) THEN Ord(Char(a, 1)) < Ord(Char(b, 1))
    ELSE StrLess(SubSeq(a, 2, Len(a)), SubSeq(b, 2, Len(b)))

IsWhite(c) == c = " "

\* str.strip(): leading and trailing whitespace removed.
RECURSIVE Strip(_)
Strip(s) ==
    IF s = "" THEN ""
    ELSE IF IsWhite(Char(s, 1)) THEN Strip(SubSeq(s, 2, Len(s)))
    ELSE IF IsWhite(Char(s, Len(s))) THEN Strip(SubSeq(s, 1, Len(s) - 1))
    ELSE s

\* str.strip(q) for a one-character q: every leading and trailing q removed.
RECURSIVE StripChar(_, _)
StripChar(s, q) ==
    IF s = "" THEN ""
    ELSE IF Char(s, 1) = q THEN StripChar(SubSeq(s, 2, Len(s)), q)
    ELSE IF Char(s, Len(s)) = q THEN StripChar(SubSeq(s, 1, Len(s) - 1), q)
    ELSE s

\* s.split("/")
RECURSIVE SplitFrom(_, _, _)
SplitFrom(s, i, cur) ==
    IF i > Len(s) THEN <<cur>>
    ELSE IF Char(s, i) = "/" THEN <<cur>> \o SplitFrom(s, i + 1, "")
    ELSE SplitFrom(s, i + 1, cur \o Char(s, i))

Split(s) == SplitFrom(s, 1, "")

\* str(path) of an absolute path.
RECURSIVE PathStr(_)
PathStr(p) ==
    IF p = <<>> THEN ""
    ELSE PathStr(SubSeq(p, 1, Len(p) - 1)) \o "/" \o p[Len(p)]

Parent(p) == SubSeq(p, 1, Len(p) - 1)

Name(p) == p[Len(p)]

IsPrefix(p, q) ==
    /\ Len(p) <= Len(q)
    /\ SubSeq(q, 1, Len(p)) = p

\* Path.__lt__: the component lists compared lexicographically.
RECURSIVE PathLess(_, _)
PathLess(p, q) ==
    IF q = <<>> THEN FALSE
    ELSE IF p = <<>> THEN TRUE
    ELSE IF Head(p) # Head(q) THEN StrLess(Head(p), Head(q))
    ELSE PathLess(Tail(p), Tail(q))

\* The components of rel applied to the directory dir one by one, as
\* Path.resolve() does in a tree without symbolic links: "" and "." are
\* dropped, ".." pops a component (and stays at the root).
RECURSIVE Normalize(_, _)
Normalize(dir, comps) ==
    IF comps = <<>> THEN dir
    ELSE LET c == Head(comps)
             d == IF c = "" \/ c = "." THEN dir
                  ELSE IF c = ".." THEN (IF dir = <<>> THEN dir ELSE Parent(dir))
                  ELSE Append(dir, c)
         IN  Normalize(d, Tail(comps))

\* (dir / rel).resolve(): an absolute rel replaces dir.
ResolvePath(dir, rel) ==
    Normalize(IF StartsWith(rel, "/") THEN <<>> ELSE dir, Split(rel))

(***************************************************************************)
(* The extracted project tree.  tree maps the path of every archive member *)
(* (relative to the working directory) to a regular file with its text or  *)
(* to a directory; the directories above a member exist too.  A text is    *)
(* what the resolver reads of it: the values of its root-declaration lines *)
(* in file order, and the LaTeX markers it contains.                       *)
(***************************************************************************)

Marks == {"\\documentclass", "\\begin{document}", "\\end{document}"}

EmptyText == [roots |-> <<>>, marks |-> {}]

File(text) == [kind |-> "file", text |-> text]

Dir == [kind |-> "dir", text |-> EmptyText]

\* Regular files outside every working directory.
OutsideFiles == {<<"etc", "passwd">>}

TreePaths(tree) == UNION {{SubSeq(p, 1, k) : k \in 1..Len(p)} : p \in DOMAIN tree}

Kind(tree, rel) ==
    IF rel \in DOMAIN tree THEN tree[rel].kind
    ELSE IF rel \in TreePaths(tree) THEN "dir"
    ELSE "none"

Rel(w, abs) == SubSeq(abs, Len(w) + 1, Len(abs))

\* Path.exists()
Exists(w, tree, abs) ==
    \/ abs \in OutsideFiles
    \/ IsPrefix(abs, w)
    \/ IsPrefix(w, abs) /\ Kind(tree, Rel(w, abs)) # "none"

\* Path.is_file()
IsFile(w, tree, abs) ==
    \/ abs \in OutsideFiles
    \/ IsPrefix(w, abs) /\ Kind(tree, Rel(w, abs)) = "file"

\* workdir.rglob("*.tex"): every path under the working directory, file or
\* directory, whose name matches; the order of enumeration is the filesystem's.
RGlob(tree) == {p \in TreePaths(tree) : EndsWith(Name(p), ".tex")}

Perms(S) ==
    {f \in [1..Cardinality(S) -> S] : \A i, j \in DOMAIN f : f[i] = f[j] => i = j}

(***************************************************************************)
(* app/latex_compile.py: the main-document resolver.                       *)
(***************************************************************************)

\* The text of a path; "" when it cannot be read (a directory).
_read_text(tree, rel) ==
    IF Kind(tree, rel) = "file" THEN tree[rel].text ELSE EmptyText

\* re.search takes the first matching line; its value is stripped of
\* whitespace and quotes.  "" stands for None.
_extract_magic_root(text) ==
    IF text.roots = <<>> THEN ""
    ELSE StripChar(StripChar(Strip(text.roots[1]), "\""), "'")

\* A resolver that takes every candidate as lying in the working directory.
RelativeToAnywhere(candidate, workdir_resolved) == TRUE

\* candidate.relative_to(workdir_resolved) does not raise.
RelativeTo(candidate, workdir_resolved) == IsPrefix(workdir_resolved, candidate)

\* hits[candidate] = hits.get(candidate, 0) + 1, on a dict kept as the sequence
\* of its items in insertion order.
Bump(hits, candidate) ==
    IF \E i \in DOMAIN hits : hits[i].path = candidate
    THEN LET i == CHOOSE k \in DOMAIN hits : hits[k].path = candidate
         IN  [hits EXCEPT ![i].n = @ + 1]
    ELSE Append(hits, [path |-> candidate, n |-> 1])

\* The loop of _pick_magic_root over the enumeration order.
RECURSIVE ScanHits(_, _, _, _)
ScanHits(w, tree, order, hits) ==
    IF order = <<>> THEN hits
    ELSE LET tex_path == Head(order)
             text == _read_text(tree, tex_path)
             root_rel == _extract_magic_root(text)
             candidate == ResolvePath(w \o Parent(tex_path), root_rel)
             next == IF text = EmptyText \/ root_rel = "" THEN hits
                     ELSE IF ~RelativeTo(candidate, w) THEN hits
                     ELSE IF Exists(w, tree, candidate) /\ IsFile(w, tree, candidate)
                          THEN Bump(hits, candidate)
                          ELSE hits
         IN  ScanHits(w, tree, Tail(order), next)

\* key=lambda kv: (kv[1], -len(str(kv[0])))
HitKeyLess(h1, h2) ==
    \/ h1.n < h2.n
    \/ h1.n = h2.n /\ -Len(PathStr(h1.path)) < -Len(PathStr(h2.path))

\* max(items, key=...): the first item no other item exceeds.
MaxHit(hits) ==
    LET best == CHOOSE i \in DOMAIN hits :
                    /\ \A j \in DOMAIN hits : ~HitKeyLess(hits[i], hits[j])
                    /\ \A j \in 1..(i - 1) : HitKeyLess(hits[j], hits[i])
    IN  hits[best].path

\* <<>> stands for None.
_pick_magic_root(w, tree, order) ==
    LET hits == ScanHits(w, tree, order, <<>>)
    IN  IF hits = <<>> THEN <<>> ELSE MaxHit(hits)

\* A scoring with the weights of the document class and of the document
\* begin exchanged.
_score_tex_candidate_SwappedWeights(tex_path, text) ==
    LET name == Lower(Name(tex_path))
        score == (IF name = "main.tex" THEN 50 ELSE 0)
               + (IF "\\documentclass" \in text.marks THEN 20 ELSE 0)
               + (IF "\\begin{document}" \in text.marks THEN 40 ELSE 0)
               + (IF "\\end{document}" \in text.marks THEN 5 ELSE 0)
    IN  <<score, -Len(PathStr(tex_path))>>

_score_tex_candidate(tex_path, text) ==
    LET name == Lower(Name(tex_path))
        score == (IF name = "main.tex" THEN 50 ELSE 0)
               + (IF "\\documentclass" \in text.marks THEN 40 ELSE 0)
               + (IF "\\begin{document}" \in text.marks THEN 20 ELSE 0)
               + (IF "\\end{document}" \in text.marks THEN 5 ELSE 0)
    IN  <<score, -Len(PathStr(tex_path))>>

\* (score, tie, path) < (score, tie, path)
ScoredLess(s1, s2) ==
    \/ s1[1] < s2[1]
    \/ s1[1] = s2[1] /\ s1[2] < s2[2]
    \/ s1[1] = s2[1] /\ s1[2] = s2[2] /\ PathLess(s1[3], s2[3])

\* scored.sort(reverse=True); scored[0]: the sort is stable, so this is the
\* first element of the list no other element exceeds.
SortedFirst(scored) ==
    LET best == CHOOSE i \in DOMAIN scored :
                    /\ \A j \in DOMAIN scored : ~ScoredLess(scored[i], scored[j])
                    /\ \A j \in 1..(i - 1) : ScoredLess(scored[j], scored[i])
    IN  scored[best]

Root(path) == [kind |-> "root", path |-> path, msg |-> ""]

RuntimeError(msg) == [kind |-> "error", path |-> <<>>, msg |-> msg]

NoResult == [kind |-> "none", path |-> <<>>, msg |-> ""]

\* The loop of _pick_main_tex that scores every enumerated path.
RECURSIVE ScoreAll(_, _, _)
ScoreAll(w, tree, tex_files) ==
    IF tex_files = <<>> THEN <<>>
    ELSE LET tex_path == w \o Head(tex_files)
             st == _score_tex_candidate(tex_path, _read_text(tree, Head(tex_files)))
         IN  <<(<<st[1], st[2], tex_path>>)>> \o ScoreAll(w, tree, Tail(tex_files))

\* A resolver that looks for the top-level main.tex before the declarations.
_pick_main_tex_ConventionFirst(w, tree, order1, order3) ==
    LET magic_root == _pick_magic_root(w, tree, order1)
        main == Append(w, "main.tex")
    IN  IF Exists(w, tree, main) THEN Root(main)
        ELSE IF magic_root # <<>> THEN Root(magic_root)
        ELSE IF order3 = <<>> THEN RuntimeError("No .tex file found in the zip.")
        ELSE Root(SortedFirst(ScoreAll(w, tree, order3))[3])

\* order1 is the enumeration of stage 1's rglob, order3 that of stage 3's.
_pick_main_tex(w, tree, order1, order3) ==
    LET magic_root == _pick_magic_root(w, tree, order1)
        main == Append(w, "main.tex")
    IN  IF magic_root # <<>> THEN Root(magic_root)
        ELSE IF Exists(w, tree, main) THEN Root(main)
        ELSE IF order3 = <<>> THEN RuntimeError("No .tex file found in the zip.")
        ELSE Root(SortedFirst(ScoreAll(w, tree, order3))[3])

(***************************************************************************)
(* The resolver on an extracted archive.  The archive's members are        *)
(* extracted one by one into the working directory; _pick_main_tex then    *)
(* runs on the tree, any number of times, each run with the enumeration    *)
(* orders the filesystem gives it.                                         *)
(***************************************************************************)

VARIABLES
    tree,   \* the resolver's working directory: member path -> entry
    res,    \* what _pick_main_tex returned on it
    fs,     \* the temporary directories that exist: [name, owner]
    req,    \* the calls of compile_zip_bytes_to_pdf, by caller
    cfg,    \* the environment of the service
    http,   \* the /compile request being handled
    store,  \* the bucket: object key -> archive
    ops     \* the storage operations issued, in order

rvars == <<tree, res>>

cvars == <<fs, req>>

hvars == <<cfg, http, store, ops>>

vars == <<tree, res, fs, req, cfg, http, store, ops>>

\* The most members an archive holds.
MaxEntries == 3

ProjDir == <<"tmp", "t1", "proj">>

\* The member names archives are made of.
ArchivePaths ==
    {<<"main.tex">>, <<"a.tex">>, <<"b.tex">>, <<"sub", "Main.tex">>, <<"n.txt">>}

\* The root declarations of a text, in file order.
RootLists ==
    {<<"b.tex">>, <<"\"a.tex\"">>, <<"n.txt">>, <<"../main.tex">>,
     <<"../../../etc/passwd">>, <<"../../../etc/passwd", "b.tex">>}

Texts ==
    {[roots |-> <<>>, marks |-> m] : m \in SUBSET Marks}
    \cup {[roots |-> r, marks |-> {}] : r \in RootLists}

EntriesFor(p) ==
    IF EndsWith(Name(p), ".tex") THEN {File(t) : t \in Texts} \cup {Dir}
    ELSE {File(EmptyText)}

NoTree == [p \in {} |-> Dir]

InitResolver ==
    /\ tree = NoTree
    /\ res = NoResult

\* z.extractall(workdir), one member.
ExtractMember ==
    /\ res = NoResult
    /\ Cardinality(DOMAIN tree) < MaxEntries
    /\ \E p \in ArchivePaths \ DOMAIN tree : \E e \in EntriesFor(p) :
          tree' = tree @@ (p :> e)
    /\ UNCHANGED <<res, cvars, hvars>>

ReachesStage3(w, t, order1) ==
    /\ _pick_magic_root(w, t, order1) = <<>>
    /\ ~Exists(w, t, Append(w, "main.tex"))

\* main_tex = _pick_main_tex(workdir)
PickMainTex ==
    /\ \E order1 \in Perms(RGlob(tree)) :
       \E order3 \in (IF ReachesStage3(ProjDir, tree, order1)
                      THEN Perms(RGlob(tree)) ELSE {order1}) :
          res' = _pick_main_tex(ProjDir, tree, order1, order3)
    /\ UNCHANGED <<tree, cvars, hvars>>

(***************************************************************************)
(* app/latex_compile.py: compile_zip_bytes_to_pdf.  Every caller has its   *)
(* own call; a call is at one of the positions idle, extract, pick,        *)
(* latexmk, pass1, bib, pass2, pass3, check, done.                         *)
(***************************************************************************)

Callers == {1, 2}

\* The names tempfile draws from.
TmpNames == {"t1", "t2"}

\* The characters one invocation prints.
OutputLen == 5000

\* logs[-8000:]
LogTail == 8000

FullText == [roots |-> <<>>, marks |-> Marks]

\* Archives: bytes that are no zip file, and zip files by their members.
BadZip == [ok |-> FALSE, members |-> NoTree]

Zip(members) == [ok |-> TRUE, members |-> members]

Zips ==
    {BadZip,
     Zip(NoTree),
     Zip(<<"main.tex">> :> File(FullText)),
     Zip((<<"main.tex">> :> File(FullText)) @@ (<<"main.pdf">> :> File(EmptyText))),
     Zip(<<"sub", "Main.tex">> :> File(FullText))}

\* The position of the last "." of name, 0 when there is none.
RECURSIVE LastDot(_, _)
LastDot(name, i) ==
    IF i = 0 THEN 0
    ELSE IF Char(name, i) = "." THEN i
    ELSE LastDot(name, i - 1)

\* Path.stem
Stem(name) ==
    LET d == LastDot(name, Len(name))
    IN  IF d <= 1 THEN name ELSE SubSeq(name, 1, d - 1)

\* The compile log is kept as the sequence of its runs of output: who printed,
\* and how many characters.
Chunk(who, n) == [who |-> who, n |-> n]

LogLen(logs) ==
    LET RECURSIVE Sum(_)
        Sum(i) == IF i = 0 THEN 0 ELSE logs[i].n + Sum(i - 1)
    IN  Sum(Len(logs))

\* logs[-k:]
RECURSIVE LastChars(_, _)
LastChars(logs, k) ==
    IF k = 0 \/ logs = <<>> THEN <<>>
    ELSE LET c == logs[Len(logs)]
         IN  IF c.n >= k THEN <<Chunk(c.who, k)>>
             ELSE Append(LastChars(SubSeq(logs, 1, Len(logs) - 1), k - c.n), c)

NoOutcome == [kind |-> "none", err |-> "", msg |-> "", tail |-> <<>>, bytes |-> ""]

\* return pdf_path.read_bytes()
Pdf(bytes) == [kind |-> "pdf", err |-> "", msg |-> "", tail |-> <<>>, bytes |-> bytes]

\* raise err(msg + tail)
Raise(err, msg, tail) ==
    [kind |-> "error", err |-> err, msg |-> msg, tail |-> tail, bytes |-> ""]

IdleCall ==
    [pc |-> "idle", zip |-> BadZip, tmp |-> "", tree |-> NoTree, main_tex |-> <<>>,
     logs |-> <<>>, invoked |-> FALSE, written |-> FALSE, out |-> NoOutcome]

\* workdir = Path(tmp) / "proj"
WorkDir(c) == <<"tmp", c.tmp, "proj">>

tex_dir(c) == Parent(c.main_tex)

stem(c) == Stem(Name(c.main_tex))

\* tex_dir / f"{stem}{suffix}", relative to the working directory
Beside(c, suffix) == Rel(WorkDir(c), Append(tex_dir(c), stem(c) \o suffix))

\* A tool that writes the files paths into the working directory.
Written(t, paths) ==
    [p \in DOMAIN t \cup paths |-> IF p \in paths THEN File(EmptyText) ELSE t[p]]

\* The names mkdtemp may create: those no directory has.
FreshNames(dirs) == TmpNames \ {d.name : d \in dirs}

\* with tempfile.TemporaryDirectory() as tmp: workdir.mkdir(...)
Enter(r, zip_bytes) ==
    /\ req[r].pc = "idle"
    /\ \E name \in FreshNames(fs) :
          /\ fs' = fs \cup {[name |-> name, owner |-> r]}
          /\ req' = [req EXCEPT ![r] = [@ EXCEPT !.pc = "extract",
                                                 !.zip = zip_bytes,
                                                 !.tmp = name]]

\* A call that ends without releasing its directory when it raises.
LeaveKeepingOnError(r, c, outcome) ==
    /\ fs' = IF outcome.kind = "error" THEN fs
             ELSE fs \ {[name |-> c.tmp, owner |-> r]}
    /\ req' = [req EXCEPT ![r] = [c EXCEPT !.pc = "done", !.out = outcome]]

\* The with block is left, by return or by exception: TemporaryDirectory
\* removes the directory.  c is the call's record as the leaving step made it.
Leave(r, c, outcome) ==
    /\ fs' = fs \ {[name |-> c.tmp, owner |-> r]}
    /\ req' = [req EXCEPT ![r] = [c EXCEPT !.pc = "done", !.out = outcome]]

Goto(r, c, pc) ==
    /\ req' = [req EXCEPT ![r] = [c EXCEPT !.pc = pc]]
    /\ UNCHANGED fs

\* z.extractall(workdir), or BadZipFile
Extract(r) ==
    /\ req[r].pc = "extract"
    /\ IF req[r].zip.ok
       THEN Goto(r, [req[r] EXCEPT !.tree = req[r].zip.members], "pick")
       ELSE Leave(r, req[r], Raise("RuntimeError", "Invalid zip file.", <<>>))

\* main_tex = _pick_main_tex(workdir)
Pick(r) ==
    /\ req[r].pc = "pick"
    /\ \E order1 \in Perms(RGlob(req[r].tree)) :
       \E order3 \in Perms(RGlob(req[r].tree)) :
          LET picked == _pick_main_tex(WorkDir(req[r]), req[r].tree, order1, order3)
          IN  IF picked.kind = "error"
              THEN Leave(r, req[r], Raise("RuntimeError", picked.msg, <<>>))
              ELSE Goto(r, [req[r] EXCEPT !.main_tex = picked.path], "latexmk")

\* logs += _run(cmd, ...): the tool prints, and writes the files paths beside
\* the root; wrote tells whether <stem>.pdf is among them.
Ran(c, who, suffixes) ==
    [c EXCEPT !.logs = Append(@, Chunk(who, OutputLen)),
              !.invoked = TRUE,
              !.written = @ \/ ".pdf" \in suffixes,
              !.tree = Written(@, {Beside(c, x) : x \in suffixes})]

TimeoutExpired(who) == Raise("TimeoutExpired", who, <<>>)

FileNotFoundError(who) == Raise("FileNotFoundError", who, <<>>)

\* _run(["latexmk", ...], timeout_s=300): it returns, or it times out, or
\* latexmk is not installed and the except branch takes over.
Latexmk(r) ==
    /\ req[r].pc = "latexmk"
    /\ \/ \E out \in SUBSET {".pdf"} : Goto(r, Ran(req[r], "latexmk", out), "check")
       \/ Leave(r, [req[r] EXCEPT !.invoked = TRUE], TimeoutExpired("latexmk"))
       \/ Goto(r, req[r], "pass1")

\* pass 1: _run(base_cmd, timeout_s=90), inside the except FileNotFoundError;
\* a missing pdflatex is not caught there.
Pass1(r) ==
    /\ req[r].pc = "pass1"
    /\ \/ \E out \in {{}, {".aux"}, {".aux", ".bcf"}, {".aux", ".pdf"},
                       {".aux", ".bcf", ".pdf"}} :
             Goto(r, Ran(req[r], "pdflatex", out), "bib")
       \/ Leave(r, [req[r] EXCEPT !.invoked = TRUE], TimeoutExpired("pdflatex"))
       \/ Leave(r, req[r], FileNotFoundError("pdflatex"))

\* biber if <stem>.bcf exists, else bibtex if <stem>.aux exists
Bib(r) ==
    /\ req[r].pc = "bib"
    /\ LET c == req[r]
           w == WorkDir(c)
           bcf == Exists(w, c.tree, w \o Beside(c, ".bcf"))
           aux == Exists(w, c.tree, w \o Beside(c, ".aux"))
           tool == IF bcf THEN "biber" ELSE "bibtex"
       IN  IF bcf \/ aux
           THEN \/ Goto(r, Ran(c, tool, {}), "pass2")
                \/ Leave(r, [c EXCEPT !.invoked = TRUE], TimeoutExpired(tool))
                \/ Leave(r, c, FileNotFoundError(tool))
           ELSE Goto(r, c, "pass2")

\* passes 2 and 3: _run(base_cmd, timeout_s=90)
Pass23(r) ==
    /\ req[r].pc \in {"pass2", "pass3"}
    /\ \/ \E out \in SUBSET {".pdf"} :
             Goto(r, Ran(req[r], "pdflatex", out),
                  IF req[r].pc = "pass2" THEN "pass3" ELSE "check")
       \/ Leave(r, [req[r] EXCEPT !.invoked = TRUE], TimeoutExpired("pdflatex"))

\* if not pdf_path.exists(): raise ...; return pdf_path.read_bytes()
Check(r) ==
    /\ req[r].pc = "check"
    /\ LET c == req[r]
           w == WorkDir(c)
       IN  IF ~Exists(w, c.tree, w \o Beside(c, ".pdf"))
           THEN Leave(r, c, Raise("RuntimeError", "PDF not produced. Log tail:\n",
                                  LastChars(c.logs, LogTail)))
           ELSE Leave(r, c, Pdf(IF c.written THEN "written by the toolchain"
                                ELSE "from the archive"))

\* One step of a call after its entry.
CompileStep(r) ==
    \/ Extract(r)
    \/ Pick(r)
    \/ Latexmk(r)
    \/ Pass1(r)
    \/ Bib(r)
    \/ Pass23(r)
    \/ Check(r)

(***************************************************************************)
(* app/main.py: the /compile handler, for one request.                     *)
(***************************************************************************)

KeySamples == {"uploads/a.zip", "uploads/a.txt", "tmp/a.zip", "a.zip"}

NoHeader == [given |-> FALSE, value |-> ""]

Header(v) == [given |-> TRUE, value |-> v]

Response(status, detail) == [status |-> status, detail |-> detail]

NoResponse == Response(0, "")

IdleHttp ==
    [pc |-> "idle", x_api_key |-> NoHeader, key |-> "", delete_after |-> TRUE,
     attempt |-> NoOutcome, delete_failed |-> FALSE, response |-> NoResponse]

\* if not APP_API_KEY or x_api_key != APP_API_KEY
Unauthorized(x_api_key) ==
    \/ cfg.APP_API_KEY = ""
    \/ ~x_api_key.given
    \/ x_api_key.value # cfg.APP_API_KEY

\* A validation that forgets the suffix.
ValidKeyPrefixOnly(key) == StartsWith(key, "uploads/")

\* not (not key.startswith("uploads/") or not key.endswith(".zip"))
ValidKey(key) == StartsWith(key, "uploads/") /\ EndsWith(key, ".zip")

\* A handler that lets a failed delete replace the response.
RespondDeleteFatal(attempt, delete_failed) ==
    IF delete_failed THEN Response(500, "delete failed")
    ELSE IF attempt.kind = "pdf" THEN Response(200, attempt.bytes)
    ELSE Response(400, attempt.msg)

\* return Response(content=pdf_bytes, ...), or HTTPException(400, str(e))
Respond(attempt, delete_failed) ==
    IF attempt.kind = "pdf" THEN Response(200, attempt.bytes)
    ELSE Response(400, attempt.msg)

Finish(h, response) ==
    http' = [h EXCEPT !.pc = "done", !.response = response]

\* require_api_key(x_api_key)
RequireApiKey ==
    /\ http.pc = "auth"
    /\ IF Unauthorized(http.x_api_key)
       THEN Finish(http, Response(401, "Unauthorized"))
       ELSE http' = [http EXCEPT !.pc = "validate"]
    /\ UNCHANGED <<rvars, cvars, cfg, store, ops>>

\* the key check
ValidateKey ==
    /\ http.pc = "validate"
    /\ IF ~ValidKey(http.key)
       THEN Finish(http, Response(400, "Invalid key"))
       ELSE http' = [http EXCEPT !.pc = "client"]
    /\ UNCHANGED <<rvars, cvars, cfg, store, ops>>

\* s3 = get_s3_client(): os.environ[...] raises KeyError outside the try
GetS3Client ==
    /\ http.pc = "client"
    /\ IF cfg.spaces_env
       THEN http' = [http EXCEPT !.pc = "fetch"]
       ELSE Finish(http, Response(500, "Internal Server Error"))
    /\ UNCHANGED <<rvars, cvars, cfg, store, ops>>

\* zip_bytes = fetch_object_bytes(s3, SPACES_BUCKET, req.key)
Fetch ==
    /\ http.pc = "fetch"
    /\ ops' = Append(ops, <<"get", http.key>>)
    /\ \/ /\ http.key \in DOMAIN store
          /\ Enter(1, store[http.key])
          /\ http' = [http EXCEPT !.pc = "compile"]
       \/ /\ http' = [http EXCEPT !.pc = "finally",
                                  !.attempt = Raise("ClientError", "get_object failed", <<>>)]
          /\ UNCHANGED cvars
    /\ UNCHANGED <<rvars, cfg, store>>

\* pdf_bytes = compile_zip_bytes_to_pdf(zip_bytes), a step of it
Compile ==
    /\ http.pc = "compile"
    /\ CompileStep(1)
    /\ UNCHANGED <<rvars, hvars>>

\* compile_zip_bytes_to_pdf returned or raised
CompileReturn ==
    /\ http.pc = "compile"
    /\ req[1].pc = "done"
    /\ http' = [http EXCEPT !.pc = "finally", !.attempt = req[1].out]
    /\ UNCHANGED <<rvars, cvars, cfg, store, ops>>

\* finally: delete_object unless delete_after is false, its exception
\* swallowed; then the response.
Finally ==
    /\ http.pc = "finally"
    /\ IF http.delete_after
       THEN /\ ops' = Append(ops, <<"delete", http.key>>)
            /\ \/ /\ store' = [k \in DOMAIN store \ {http.key} |-> store[k]]
                  /\ Finish(http, Respond(http.attempt, FALSE))
               \/ /\ UNCHANGED store
                  /\ Finish([http EXCEPT !.delete_failed = TRUE],
                            Respond(http.attempt, TRUE))
       ELSE /\ UNCHANGED <<store, ops>>
            /\ Finish(http, Respond(http.attempt, FALSE))
    /\ UNCHANGED <<rvars, cvars, cfg>>

(***************************************************************************)
(* The specifications.                                                     *)
(***************************************************************************)

NoCalls == [r \in Callers |-> IdleCall]

IdleService ==
    /\ cfg = [APP_API_KEY |-> "", spaces_env |-> FALSE]
    /\ http = IdleHttp
    /\ store = [k \in {} |-> BadZip]
    /\ ops = <<>>

\* The resolver alone, on every archive of up to MaxEntries members.
Init ==
    /\ InitResolver
    /\ fs = {} /\ req = NoCalls
    /\ IdleService

Next == ExtractMember \/ PickMainTex

Spec == Init /\ [][Next]_vars

\* compile_zip_bytes_to_pdf called by concurrent callers.
InitCompile ==
    /\ tree = NoTree /\ res = NoResult
    /\ fs = {} /\ req = NoCalls
    /\ IdleService

Call(r) ==
    /\ \E zip_bytes \in Zips : Enter(r, zip_bytes)
    /\ UNCHANGED <<rvars, hvars>>

Step(r) ==
    /\ CompileStep(r)
    /\ UNCHANGED <<rvars, hvars>>

NextCompile == \E r \in Callers : Call(r) \/ Step(r)

SpecCompile == InitCompile /\ [][NextCompile]_vars

\* One /compile request against a bucket.
InitHttp ==
    /\ tree = NoTree /\ res = NoResult
    /\ fs = {} /\ req = NoCalls
    /\ cfg \in [APP_API_KEY : {"", "secret"}, spaces_env : BOOLEAN]
    /\ \E x \in {NoHeader, Header(""), Header("secret"), Header("wrong")} :
       \E key \in KeySamples : \E d \in BOOLEAN :
          http = [IdleHttp EXCEPT !.pc = "auth", !.x_api_key = x, !.key = key,
                                  !.delete_after = d]
    /\ \E zip_bytes \in Zips :
          store \in {("tmp/a.zip" :> zip_bytes),
                     ("tmp/a.zip" :> zip_bytes) @@ ("uploads/a.zip" :> zip_bytes),
                     ("tmp/a.zip" :> zip_bytes) @@ ("uploads/a.txt" :> zip_bytes)
                         @@ ("uploads/a.zip" :> zip_bytes)}
    /\ ops = <<>>

NextHttp ==
    \/ RequireApiKey
    \/ ValidateKey
    \/ GetS3Client
    \/ Fetch
    \/ Compile
    \/ CompileReturn
    \/ Finally

SpecHttp == InitHttp /\ [][NextHttp]_vars

(***************************************************************************)
(* What the properties of the resolver speak of.                           *)
(***************************************************************************)

\* The candidate documents: the regular files named *.tex.
TexFiles(t) == {p \in RGlob(t) : Kind(t, p) = "file"}

\* A candidate document: a regular .tex file under the working directory.
IsCandidateDocument(w, t, abs) ==
    /\ IsPrefix(w, abs)
    /\ Kind(t, Rel(w, abs)) = "file"
    /\ EndsWith(Name(abs), ".tex")

CleanRoot(raw) == StripChar(StripChar(Strip(raw), "\""), "'")

\* Where the i-th root declaration of file p points, from p's directory.
DeclTarget(w, t, p, i) == ResolvePath(w \o Parent(p), CleanRoot(t[p].text.roots[i]))

\* The i-th declaration of p names an existing regular file inside w.
DeclResolves(w, t, p, i) ==
    /\ CleanRoot(t[p].text.roots[i]) # ""
    /\ IsPrefix(w, DeclTarget(w, t, p, i))
    /\ IsFile(w, t, DeclTarget(w, t, p, i))

\* The i-th declaration of p points outside w.
DeclEscapes(w, t, p, i) ==
    /\ CleanRoot(t[p].text.roots[i]) # ""
    /\ ~IsPrefix(w, DeclTarget(w, t, p, i))

\* The files whose first (any) declaration resolves to target.
FirstDeclarers(w, t, target) ==
    {p \in TexFiles(t) : /\ t[p].text.roots # <<>>
                         /\ DeclResolves(w, t, p, 1)
                         /\ DeclTarget(w, t, p, 1) = target}

AnyDeclarers(w, t, target) ==
    {p \in TexFiles(t) : \E i \in DOMAIN t[p].text.roots :
                            /\ DeclResolves(w, t, p, i)
                            /\ DeclTarget(w, t, p, i) = target}

Targets(w, t) == {w \o p : p \in DOMAIN t}

\* The targets declared by the most files.
TopFirstTargets(w, t) ==
    {x \in Targets(w, t) :
        /\ FirstDeclarers(w, t, x) # {}
        /\ \A y \in Targets(w, t) :
              Cardinality(FirstDeclarers(w, t, y)) <= Cardinality(FirstDeclarers(w, t, x))}

TopAnyTargets(w, t) ==
    {x \in Targets(w, t) :
        /\ AnyDeclarers(w, t, x) # {}
        /\ \A y \in Targets(w, t) :
              Cardinality(AnyDeclarers(w, t, y)) <= Cardinality(AnyDeclarers(w, t, x))}

Resolved == res # NoResult

MainTex == Append(ProjDir, "main.tex")

\* C1, as amended: when the FIRST root declaration of at least one .tex file
\* resolves, from the declaring file's directory, to an existing regular file
\* inside the working directory, _pick_main_tex returns a target declared (by
\* first declarations) by the most files, whatever main.tex and the scores are.
C1_FirstDeclarationOutranks ==
    (Resolved /\ TopFirstTargets(ProjDir, tree) # {}) =>
        /\ res.kind = "root"
        /\ res.path \in TopFirstTargets(ProjDir, tree)

\* C1 as stated: any root declaration a .tex file carries counts.
C1_AnyDeclarationOutranks ==
    (Resolved /\ TopAnyTargets(ProjDir, tree) # {}) =>
        /\ res.kind = "root"
        /\ res.path \in TopAnyTargets(ProjDir, tree)

\* C1's case: a target declared by two files is returned although another
\* target is declared by one file and a top-level main.tex exists.
C1_Witness ==
    /\ Resolved
    /\ Exists(ProjDir, tree, MainTex)
    /\ res.path # MainTex
    /\ Cardinality(FirstDeclarers(ProjDir, tree, res.path)) = 2
    /\ \E y \in Targets(ProjDir, tree) :
          Cardinality(FirstDeclarers(ProjDir, tree, y)) = 1

\* Every result _pick_main_tex can return on tree t, over the enumeration orders.
Outcomes(w, t) ==
    {_pick_main_tex(w, t, o1, o3) : o1 \in Perms(RGlob(t)), o3 \in Perms(RGlob(t))}

Escapes(w, p, raw) ==
    /\ CleanRoot(raw) # ""
    /\ ~IsPrefix(w, ResolvePath(w \o Parent(p), CleanRoot(raw)))

\* t with every declaration line that points outside w deleted.
WithoutEscapingLines(w, t) ==
    [p \in DOMAIN t |->
        LET Stays(raw) == ~Escapes(w, p, raw)
        IN  [t[p] EXCEPT !.text.roots = SelectSeq(@, Stays)]]

\* t with no declaration left in a file whose first declaration points outside w.
WithoutEscapingFiles(w, t) ==
    [p \in DOMAIN t |->
        IF t[p].text.roots # <<>> /\ Escapes(w, p, t[p].text.roots[1])
        THEN [t[p] EXCEPT !.text.roots = <<>>]
        ELSE t[p]]

EscapingFiles(w, t) ==
    {p \in TexFiles(t) : \E i \in DOMAIN t[p].text.roots : DeclEscapes(w, t, p, i)}

\* C2, as amended: the returned path lies inside the working directory, and a
\* tree with declarations pointing outside it resolves, without an error of
\* its own, as the tree does in which the files whose first declaration
\* points outside carry no declaration at all.
C2_EscapingDeclarationIgnored ==
    Resolved =>
        /\ res.kind = "root" => IsPrefix(ProjDir, res.path)
        /\ EscapingFiles(ProjDir, tree) # {} =>
              res \in Outcomes(ProjDir, WithoutEscapingFiles(ProjDir, tree))

\* C2 as stated: the tree resolves as if the escaping declarations were absent.
C2_EscapingDeclarationAbsent ==
    Resolved =>
        /\ res.kind = "root" => IsPrefix(ProjDir, res.path)
        /\ EscapingFiles(ProjDir, tree) # {} =>
              res \in Outcomes(ProjDir, WithoutEscapingLines(ProjDir, tree))

\* C2's case: the only declaration names /etc/passwd, which exists, by
\* ../ traversal; resolution fell through to the scored stage.
C2_Witness ==
    /\ Resolved
    /\ \E p \in TexFiles(tree) :
          /\ tree[p].text.roots # <<>>
          /\ DeclTarget(ProjDir, tree, p, 1) \in OutsideFiles
    /\ TopFirstTargets(ProjDir, tree) = {}
    /\ ~Exists(ProjDir, tree, MainTex)
    /\ res.kind = "root"

\* C3: whatever _pick_main_tex returns is a candidate document, a regular
\* .tex file under the working directory.
C3_RootIsCandidateDocument ==
    res.kind = "root" => IsCandidateDocument(ProjDir, tree, res.path)

HasClass(p) == "\\documentclass" \in tree[p].text.marks

\* Two regular .tex files without declarations, f with a document class and g
\* without one.
TwoFiles(f, g) ==
    /\ TexFiles(tree) = {f, g}
    /\ f # g
    /\ tree[f].text.roots = <<>> /\ tree[g].text.roots = <<>>
    /\ HasClass(f) /\ ~HasClass(g)

C5_Deterministic == [][Resolved => res' = res]_vars

\* C6: on a tree without .tex files resolution fails with the "no document"
\* error.
C6_NoTexFileIsAnError ==
    (Resolved /\ TexFiles(tree) = {}) =>
        res = RuntimeError("No .tex file found in the zip.")


(***************************************************************************)
(* What the properties of the compile pipeline speak of.                   *)
(***************************************************************************)

Finished(r) == req[r].pc = "done"

Active(r) == req[r].pc \notin {"idle", "done"}

DirsOf(r) == {d \in fs : d.owner = r}

\* The call got as far as the toolchain, and none of its invocations was cut
\* short by a timeout or a missing executable.
RanToTheEnd(r) ==
    /\ Finished(r)
    /\ req[r].main_tex # <<>>
    /\ req[r].out.err \notin {"TimeoutExpired", "FileNotFoundError"}

NotProduced(r) ==
    /\ req[r].out.kind = "error"
    /\ req[r].out.err = "RuntimeError"
    /\ req[r].out.msg = "PDF not produced. Log tail:\n"
    /\ req[r].out.tail = LastChars(req[r].logs, LogTail)
    /\ LogLen(req[r].out.tail) <= LogTail

\* C7: a compile in which no toolchain invocation writes <root-stem>.pdf
\* fails with the "PDF not produced" error carrying the last LogTail
\* characters of the log at most, and never returns bytes as a success,
\* whatever the archive contained.
C7_NeverWrittenIsNotProduced ==
    \A r \in Callers : RanToTheEnd(r) /\ ~req[r].written => NotProduced(r)

\* C8: once a call has finished, its working directory no longer exists,
\* whatever the exit; while it runs the directory is its own, and no two
\* running calls have the same one.
C8_WorkingDirectoryReleased ==
    /\ \A r \in Callers : Finished(r) => DirsOf(r) = {}
    /\ \A r \in Callers :
          Active(r) => DirsOf(r) = {[name |-> req[r].tmp, owner |-> r]}
    /\ \A r1, r2 \in Callers :
          r1 # r2 /\ Active(r1) /\ Active(r2) => req[r1].tmp # req[r2].tmp

\* One call left by an exception and gone, while the other is in its directory.
C8_Witness ==
    /\ Finished(1)
    /\ req[1].out.err = "TimeoutExpired"
    /\ Active(2)
    /\ req[2].pc = "check"
    /\ fs = {[name |-> req[2].tmp, owner |-> 2]}

(***************************************************************************)
(* What the properties of the /compile handler speak of.                   *)
(***************************************************************************)

Answered == http.pc = "done"

Authorized ==
    /\ cfg.APP_API_KEY # ""
    /\ http.x_api_key.given
    /\ http.x_api_key.value = cfg.APP_API_KEY

\* uploads/*.zip
MatchesPattern(key) ==
    /\ Len(key) >= 12
    /\ SubSeq(key, 1, 8) = "uploads/"
    /\ SubSeq(key, Len(key) - 3, Len(key)) = ".zip"

OpsOf(kind) == {i \in 1..Len(ops) : ops[i][1] = kind}

\* One get of the object, then one delete of it, and nothing else.
FetchedThenDeleted == ops = <<<<"get", http.key>>, <<"delete", http.key>>>>

\* The response is the attempt's: the PDF, or the 400 of its own error.
AnswersTheAttempt ==
    /\ http.attempt.kind = "pdf" =>
          http.response = Response(200, http.attempt.bytes)
    /\ http.attempt.kind = "error" =>
          http.response = Response(400, http.attempt.msg)
    /\ http.attempt.kind \in {"pdf", "error"}

\* C9, as stated: a request whose key does not match uploads/*.zip is
\* answered 400 "Invalid key", and no storage operation is issued for it.
C9_InvalidKeyIs400 ==
    ~MatchesPattern(http.key) =>
        /\ ops = <<>>
        /\ Answered => http.response = Response(400, "Invalid key")

\* C9: for a key that does not match uploads/*.zip no storage operation is
\* ever issued, and an authorized request with such a key is answered 400
\* "Invalid key" (an unauthorized one 401).
C9_InvalidKeyRejectedBeforeStorage ==
    ~MatchesPattern(http.key) =>
        /\ ops = <<>>
        /\ Answered /\ Authorized => http.response = Response(400, "Invalid key")
        /\ Answered /\ ~Authorized => http.response.status = 401

\* The object is in the bucket under a key with the right prefix only, and
\* the request asks for its deletion.
C9_Witness ==
    /\ Answered
    /\ Authorized
    /\ http.key = "uploads/a.txt"
    /\ http.key \in DOMAIN store
    /\ http.delete_after
    /\ http.response.status = 400

\* C10, as stated: an authorized request with a valid key and delete_after
\* true issues exactly one delete, after its attempt, and is answered by the
\* attempt whatever the delete did; with delete_after false no delete is issued.
C10_DeleteAfterEveryAttempt ==
    /\ Answered /\ Authorized /\ MatchesPattern(http.key) /\ http.delete_after =>
          FetchedThenDeleted /\ AnswersTheAttempt
    /\ ~http.delete_after => OpsOf("delete") = {}

\* C10: the same, for the requests whose storage client could be built.
C10_DeleteAfterEveryAttemptWithClient ==
    /\ Answered /\ Authorized /\ MatchesPattern(http.key) /\ cfg.spaces_env =>
          /\ AnswersTheAttempt
          /\ http.delete_after => FetchedThenDeleted
    /\ Cardinality(OpsOf("delete")) <= 1
    /\ \A i \in OpsOf("delete") : \E j \in OpsOf("get") : j < i
    /\ ~http.delete_after => OpsOf("delete") = {}

\* The compile succeeded, the delete failed, and the PDF is the response.
C10_Witness ==
    /\ Answered
    /\ http.delete_after
    /\ http.delete_failed
    /\ http.key \in DOMAIN store
    /\ http.attempt.kind = "pdf"
    /\ http.response.status = 200

====
